---- MODULE Spec2Model ----
(***************************************************************************)
(* The .ved image codec of src/main.rs: encode() turns the pixel grid of   *)
(* image.png into the text lines of output.ved, decode() turns the lines   *)
(* of output.ved into the pixel grid of decoded.png.  Text is modelled as  *)
(* TLA+ strings, split, joined, formatted and parsed character by          *)
(* character as the Rust code does.                                        *)
(***************************************************************************)
EXTENDS Integers, Sequences, FiniteSets, TLC

VARIABLES
    width, height, grid,      \* image.png: dimensions and RGB of each pixel
    enc_pc,                   \* position of encode()
    row_results, p1_done,     \* phase 1: collected (row string, local_count)
    new_img, pixel_count,     \* merged row strings and global counts
    enc_variables, img_output,\* dictionary color -> index, output lines
    encoded_rows, p2_done,    \* phase 2: collected run-length encoded rows
    file,                     \* output.ved: sequence of lines, or NoFile
    prev_file, runs,          \* output.ved of the previous run, runs so far
    dec_pc, dec_result,       \* position and outcome of decode()
    dec_width, dec_height,    \* dimensions parsed from line 0
    dec_variables,            \* dictionary index -> hex string
    rows, decoded_rows, dec_done, \* row lines, collected (y, pixels)
    decoded_png,              \* decoded.png: the saved grid, or NoFile
    enc_ooo, dec_ooo          \* some row worker finished before a lower row

vars == <<width, height, grid, enc_pc, row_results, p1_done, new_img,
          pixel_count, enc_variables, img_output, encoded_rows, p2_done,
          file, prev_file, runs, dec_pc, dec_result, dec_width, dec_height,
          dec_variables, rows, decoded_rows, dec_done, decoded_png,
          enc_ooo, dec_ooo>>

-----------------------------------------------------------------------------
(* Bounds of the model *)

MaxW == 3
MaxH == 2
MaxPixels == 6
MaxDocRows == 2
MaxRuns == 2

NoFile == "NoFile"
Pending == "Pending"

\* The 8-bit RGB colors a source pixel may take: black (hex 000000, all
\* decimal digits) and red (hex FF0000).
Colors == { <<0, 0, 0>>, <<255, 0, 0>> }

-----------------------------------------------------------------------------
(* Strings *)

Chr(s, i) == SubSeq(s, i, i)

Min(a, b) == IF a <= b THEN a ELSE b

RECURSIVE SplitFrom(_, _, _, _, _)
SplitFrom(s, sep, i, cur, acc) ==
    IF i > Len(s) THEN Append(acc, cur)
    ELSE IF Chr(s, i) = sep
         THEN SplitFrom(s, sep, i + 1, "", Append(acc, cur))
         ELSE SplitFrom(s, sep, i + 1, cur \o Chr(s, i), acc)

\* str::split(sep): the pieces between separators; "" splits to <<"">>.
Split(s, sep) == SplitFrom(s, sep, 1, "", <<>>)

RECURSIVE Join(_, _)
\* [String]::join(sep); the empty sequence joins to "".
Join(seq, sep) ==
    IF Len(seq) = 0 THEN ""
    ELSE IF Len(seq) = 1 THEN seq[1]
    ELSE seq[1] \o sep \o Join(Tail(seq), sep)

RECURSIVE IndexIn(_, _, _)
\* 1-based position of character c in s from position i on, 0 if absent.
IndexIn(s, c, i) ==
    IF i > Len(s) THEN 0
    ELSE IF Chr(s, i) = c THEN i ELSE IndexIn(s, c, i + 1)

DecDigits == "0123456789"
UpperHex == "0123456789ABCDEF"
LowerHex == "0123456789abcdef"

IsDigit(c) == IndexIn(DecDigits, c, 1) > 0

RECURSIVE AllDigits(_)
AllDigits(s) == Len(s) = 0 \/ (IsDigit(Chr(s, 1)) /\ AllDigits(Tail(s)))

RECURSIVE StripZeros(_)
StripZeros(s) ==
    IF Len(s) > 1 /\ Chr(s, 1) = "0" THEN StripZeros(Tail(s)) ELSE s

RECURSIVE LexLeq(_, _)
\* a <= b for digit strings of equal length.
LexLeq(a, b) ==
    IF Len(a) = 0 THEN TRUE
    ELSE LET x == IndexIn(DecDigits, Chr(a, 1), 1)
             y == IndexIn(DecDigits, Chr(b, 1), 1)
         IN  IF x < y THEN TRUE
             ELSE IF x > y THEN FALSE
             ELSE LexLeq(Tail(a), Tail(b))

\* a <= b for canonical decimal numerals (no leading zeros).
NumLeq(a, b) == Len(a) < Len(b) \/ (Len(a) = Len(b) /\ LexLeq(a, b))

\* usize::MAX and u32::MAX as decimal numerals (64-bit target).
USIZE_MAX == "18446744073709551615"
U32_MAX == "4294967295"

ParseFail == "ParseFail"

\* <unsigned>::from_str: an optional '+', then one or more decimal digits,
\* value at most max.  The value is its canonical decimal numeral.
ParseUnsigned(s, max) ==
    LET body == IF Len(s) > 0 /\ Chr(s, 1) = "+" THEN Tail(s) ELSE s
    IN  IF Len(body) = 0 \/ ~AllDigits(body) THEN ParseFail
        ELSE IF NumLeq(StripZeros(body), max) THEN StripZeros(body)
        ELSE ParseFail

ParseUsize(s) == ParseUnsigned(s, USIZE_MAX)
ParseU32(s) == ParseUnsigned(s, U32_MAX)

RECURSIVE NumeralToNat(_, _)
\* The number a short canonical numeral denotes.
NumeralToNat(s, acc) ==
    IF Len(s) = 0 THEN acc
    ELSE NumeralToNat(Tail(s), acc * 10 + IndexIn(DecDigits, Chr(s, 1), 1) - 1)

RECURSIVE NatToStr(_)
\* format!("{}", n) of an unsigned integer.
NatToStr(n) ==
    IF n < 10 THEN Chr(DecDigits, n + 1)
    ELSE NatToStr(n \div 10) \o Chr(DecDigits, (n % 10) + 1)

\* format!("{:02X}", channel) of a u8.
Hex2(c) == Chr(UpperHex, (c \div 16) + 1) \o Chr(UpperHex, (c % 16) + 1)

\* format!("{:02X}{:02X}{:02X}", r, g, b)
HexColor(rgb) == Hex2(rgb[1]) \o Hex2(rgb[2]) \o Hex2(rgb[3])

\* Value of a hexadecimal digit of either case, -1 if c is none.
HexVal(c) ==
    IF IndexIn(UpperHex, c, 1) > 0 THEN IndexIn(UpperHex, c, 1) - 1
    ELSE IF IndexIn(LowerHex, c, 1) > 0 THEN IndexIn(LowerHex, c, 1) - 1
    ELSE -1

\* u8::from_str_radix(two characters, 16).unwrap_or(0)
HexByteOr0(s) ==
    LET a == Chr(s, 1)
        b == Chr(s, 2)
    IN  IF a = "+" THEN (IF HexVal(b) >= 0 THEN HexVal(b) ELSE 0)
        ELSE IF HexVal(a) >= 0 /\ HexVal(b) >= 0 THEN 16 * HexVal(a) + HexVal(b)
        ELSE 0

-----------------------------------------------------------------------------
(* encode(): helpers *)

\* img.get_pixel(x, y): the RGB channels of the source pixel.
GetPixel(x, y) == grid[y][x]

\* The closure of phase 1 for row y: the comma-joined hex colors of the row
\* and the count of each color within the row.
Phase1Row(y) ==
    LET colors == [k \in 1..width |-> HexColor(GetPixel(k - 1, y))]
        seen == {colors[k] : k \in 1..width}
        local_count ==
            [c \in seen |-> Cardinality({k \in 1..width : colors[k] = c})]
    IN  <<Join(colors, ","), local_count>>

\* A collect that appends results in the order the workers finish.
CollectByCompletion(y, k) == k
\* Where the result of item y lands in the Vec that an indexed parallel
\* iterator collects into, k results having been produced before it: at
\* index y, whatever the completion order.
CollectSlot(y, k) == y

\* *entry(color).or_insert(0) += count, for every entry of local_count
AddCounts(acc, local_count) ==
    [c \in (DOMAIN acc) \cup (DOMAIN local_count) |->
        (IF c \in DOMAIN acc THEN acc[c] ELSE 0)
        + (IF c \in DOMAIN local_count THEN local_count[c] ELSE 0)]

RECURSIVE MergeCounts(_, _, _)
\* The merge loop over row_results[i..], in Vec order.
MergeCounts(results, i, acc) ==
    IF i >= height THEN acc
    ELSE MergeCounts(results, i + 1, AddCounts(acc, results[i][2]))

\* The orders in which HashMap::iter may yield the keys of a map.
IterOrders(S) ==
    {s \in [1..Cardinality(S) -> S] :
        \A i, j \in 1..Cardinality(S) : i # j => s[i] # s[j]}

RECURSIVE InsertDesc(_, _, _)
\* Insert e into a sequence sorted by descending count, after every element
\* whose count is not smaller (the sort is stable).
InsertDesc(sorted, e, cnt) ==
    IF Len(sorted) = 0 THEN <<e>>
    ELSE IF cnt[Head(sorted)] >= cnt[e]
         THEN <<Head(sorted)>> \o InsertDesc(Tail(sorted), e, cnt)
         ELSE <<e>> \o sorted

RECURSIVE SortFrom(_, _, _, _)
SortFrom(seq, i, acc, cnt) ==
    IF i > Len(seq) THEN acc
    ELSE SortFrom(seq, i + 1, InsertDesc(acc, seq[i], cnt), cnt)

\* counts.sort_by(|a, b| b.1.cmp(a.1))
SortByCountDesc(seq, cnt) == SortFrom(seq, 1, <<>>, cnt)

\* A filter that also keeps the colors that occur once.
FrequentFromOne(amount) == amount >= 1
\* .filter(|&(_, &amount)| amount >= 2)
Frequent(amount) == amount >= 2

\* The colors that enter the dictionary, in index order.
DictionaryOrder(counts, cnt) ==
    SelectSeq(SortByCountDesc(counts, cnt), LAMBDA c : Frequent(cnt[c]))

\* variables: color -> index, as inserted by the closure of var_line.
BuildVariables(order) ==
    [c \in {order[i] : i \in 1..Len(order)} |->
        (CHOOSE i \in 1..Len(order) : order[i] = c) - 1]

\* var_line: "{i}={color}" entries joined by commas.
VarLine(order) ==
    Join([i \in 1..Len(order) |-> NatToStr(i - 1) \o "=" \o order[i]], ",")

RECURSIVE EncodeTokens(_, _, _, _, _)
\* The loop of phase 2 over row.split(','), from token i on.
EncodeTokens(toks, i, last_hex, new_row, variables) ==
    IF i > Len(toks) THEN new_row
    ELSE IF toks[i] = last_hex
         THEN EncodeTokens(toks, i + 1, last_hex, Append(new_row, ""), variables)
         ELSE EncodeTokens(toks, i + 1, toks[i],
                  Append(new_row,
                         IF toks[i] \in DOMAIN variables
                         THEN NatToStr(variables[toks[i]])
                         ELSE toks[i]),
                  variables)

\* The closure of phase 2 for one row string.
EncodeRow(row, variables) ==
    Join(EncodeTokens(Split(row, ","), 1, "", <<>>, variables), ",")

\* Some row above y has not finished.
LowerPending(y, done) == \E z \in 0..(y - 1) : z \notin done

-----------------------------------------------------------------------------
(* encode(): steps *)

\* One worker of the first parallel map finishes row y.
EncPhase1(y) ==
    /\ enc_pc = "phase1"
    /\ y \in (0..(height - 1)) \ p1_done
    /\ row_results' =
         [row_results EXCEPT ![CollectSlot(y, Cardinality(p1_done))] = Phase1Row(y)]
    /\ p1_done' = p1_done \cup {y}
    /\ UNCHANGED <<width, height, grid, enc_pc, new_img, pixel_count,
                   enc_variables, img_output, encoded_rows, p2_done, file,
                   prev_file, runs, dec_pc, dec_result, dec_width, dec_height,
                   dec_variables, rows, decoded_rows, dec_done, decoded_png,
                   enc_ooo, dec_ooo>>

\* After the first map has collected every row: merge the row strings and
\* the local counts, push the dimensions line.
EncMerge ==
    /\ enc_pc = "phase1"
    /\ p1_done = 0..(height - 1)
    /\ new_img' = [i \in 0..(height - 1) |-> row_results[i][1]]
    /\ pixel_count' = MergeCounts(row_results, 0, <<>>)
    /\ img_output' = <<NatToStr(width) \o "," \o NatToStr(height)>>
    /\ enc_pc' = "dictionary"
    /\ UNCHANGED <<width, height, grid, row_results, p1_done, enc_variables,
                   encoded_rows, p2_done, file, prev_file, runs, dec_pc,
                   dec_result, dec_width, dec_height, dec_variables, rows,
                   decoded_rows, dec_done, decoded_png, enc_ooo, dec_ooo>>

\* Collect pixel_count.iter() (in the map's iteration order), sort it by
\* count, build variables and push the dictionary line.
EncDictionary ==
    /\ enc_pc = "dictionary"
    /\ \E counts \in IterOrders(DOMAIN pixel_count) :
         LET order == DictionaryOrder(counts, pixel_count)
         IN  /\ enc_variables' = BuildVariables(order)
             /\ img_output' = Append(img_output, VarLine(order))
    /\ enc_pc' = "phase2"
    /\ UNCHANGED <<width, height, grid, row_results, p1_done, new_img,
                   pixel_count, encoded_rows, p2_done, file, prev_file, runs,
                   dec_pc, dec_result, dec_width, dec_height, dec_variables,
                   rows, decoded_rows, dec_done, decoded_png, enc_ooo, dec_ooo>>

\* One worker of the second parallel map finishes row y of new_img.
EncPhase2(y) ==
    /\ enc_pc = "phase2"
    /\ y \in (0..(height - 1)) \ p2_done
    /\ encoded_rows' =
         [encoded_rows EXCEPT ![CollectSlot(y, Cardinality(p2_done))] =
             EncodeRow(new_img[y], enc_variables)]
    /\ p2_done' = p2_done \cup {y}
    /\ enc_ooo' = (enc_ooo \/ LowerPending(y, p2_done))
    /\ UNCHANGED <<width, height, grid, enc_pc, row_results, p1_done, new_img,
                   pixel_count, enc_variables, img_output, file, prev_file,
                   runs, dec_pc, dec_result, dec_width, dec_height,
                   dec_variables, rows, decoded_rows, dec_done, decoded_png,
                   dec_ooo>>

\* img_output.extend(encoded_rows), then every line is written to output.ved.
EncWrite ==
    /\ enc_pc = "phase2"
    /\ p2_done = 0..(height - 1)
    /\ img_output' = img_output \o [i \in 1..height |-> encoded_rows[i - 1]]
    /\ file' = img_output'
    /\ enc_pc' = "done"
    /\ UNCHANGED <<width, height, grid, row_results, p1_done, new_img,
                   pixel_count, enc_variables, encoded_rows, p2_done,
                   prev_file, runs, dec_pc, dec_result, dec_width, dec_height,
                   dec_variables, rows, decoded_rows, dec_done, decoded_png,
                   enc_ooo, dec_ooo>>

-----------------------------------------------------------------------------
(* decode(): helpers *)

\* Line 0 split on ',' with every piece parsed as u32: the parsed numerals,
\* or ParseFail where parse::<u32>().unwrap() panics.
ParseDims(dimensions) ==
    LET parts == Split(dimensions, ",")
    IN  [i \in 1..Len(parts) |-> ParseU32(parts[i])]

\* An entry of the dictionary line whose key parse::<usize>().unwrap()
\* panics on: exactly two '='-separated parts, the first no usize.
KeyPanics(entry) ==
    LET parts == Split(entry, "=")
    IN  Len(parts) = 2 /\ ParseUsize(parts[1]) = ParseFail

DictionaryPanics(variables_line) ==
    LET entries == Split(variables_line, ",")
    IN  \E i \in 1..Len(entries) : KeyPanics(entries[i])

RECURSIVE InsertEntries(_, _, _)
\* The for_each over variables_line.split(','), from entry i on: an entry
\* with exactly two '='-separated parts is inserted under its parsed key (a
\* later entry replaces an earlier one with the same key), any other entry
\* is skipped.
InsertEntries(entries, i, variables) ==
    IF i > Len(entries) THEN variables
    ELSE LET parts == Split(entries[i], "=")
         IN  IF Len(parts) # 2
             THEN InsertEntries(entries, i + 1, variables)
             ELSE InsertEntries(entries, i + 1,
                      [k \in (DOMAIN variables) \cup {ParseUsize(parts[1])} |->
                          IF k = ParseUsize(parts[1]) THEN parts[2]
                          ELSE variables[k]])

ParseVariables(variables_line) ==
    InsertEntries(Split(variables_line, ","), 1, <<>>)

\* token.parse::<usize>().unwrap_or(usize::MAX)
LookupKey(token) ==
    IF ParseUsize(token) = ParseFail THEN USIZE_MAX ELSE ParseUsize(token)

\* variables.get(&key).map(|s| s.as_str()).unwrap_or(&token)
ResolveToken(token, variables) ==
    IF LookupKey(token) \in DOMAIN variables
    THEN variables[LookupKey(token)]
    ELSE token

\* The '#' prefix is added unless present.
Normalize(color_str) ==
    IF Len(color_str) > 0 /\ Chr(color_str, 1) = "#"
    THEN color_str
    ELSE "#" \o color_str

\* The pixel of a normalized color string.
PixelOf(color_str) ==
    IF Len(color_str) >= 7
    THEN <<HexByteOr0(SubSeq(color_str, 2, 3)),
           HexByteOr0(SubSeq(color_str, 4, 5)),
           HexByteOr0(SubSeq(color_str, 6, 7)), 255>>
    ELSE <<0, 0, 0, 255>>

RECURSIVE DecodeTokens(_, _, _, _, _)
\* The map over row.split(','), from token i on; local_last_hex is the last
\* non-empty token of the row.
DecodeTokens(toks, i, local_last_hex, pixels, variables) ==
    IF i > Len(toks) THEN pixels
    ELSE LET token == IF toks[i] = "" THEN local_last_hex ELSE toks[i]
         IN  DecodeTokens(toks, i + 1, token,
                 Append(pixels, PixelOf(Normalize(ResolveToken(token, variables)))),
                 variables)

\* The closure of the parallel map for row line y: (y, pixels).
DecodeRow(y, row, variables) ==
    [y |-> y, pixels |-> DecodeTokens(Split(row, ","), 1, "", <<>>, variables)]

\* RgbaImage::new: every subpixel of the buffer is zero.
NewImagePixel == <<0, 0, 0, 0>>

RECURSIVE SortRowsFrom(_, _, _)
\* sorted_rows.sort_by_key(|&(y, _)| y), a stable insertion by y.
SortRowsFrom(slots, i, acc) ==
    IF i > Len(slots) THEN acc
    ELSE LET e == slots[i]
             before == SelectSeq(acc, LAMBDA r : r.y <= e.y)
             after == SelectSeq(acc, LAMBDA r : r.y > e.y)
         IN  SortRowsFrom(slots, i + 1, before \o <<e>> \o after)

SortedRows(slots) ==
    SortRowsFrom([i \in 1..Len(rows) |-> slots[i - 1]], 1, <<>>)

\* put_pixel panics when (x, y) is outside the image.
PutPixelPanics(sorted_rows, w, h) ==
    \E i \in 1..Len(sorted_rows) :
        Len(sorted_rows[i].pixels) > 0
        /\ (sorted_rows[i].y >= h \/ Len(sorted_rows[i].pixels) > w)

\* The image after every put_pixel of the loop over sorted_rows (the rows
\* carry distinct y).
Assemble(sorted_rows, w, h) ==
    [y \in 0..(h - 1) |-> [x \in 0..(w - 1) |->
        IF \E i \in 1..Len(sorted_rows) :
               sorted_rows[i].y = y /\ x < Len(sorted_rows[i].pixels)
        THEN LET i == CHOOSE j \in 1..Len(sorted_rows) : sorted_rows[j].y = y
             IN  sorted_rows[i].pixels[x + 1]
        ELSE NewImagePixel]]

-----------------------------------------------------------------------------
(* decode(): steps *)

DecIdle == dec_pc = "start" /\ file # NoFile /\ enc_pc \in {"idle", "done"}

\* lines.next() for the dimensions, their parse, RgbaImage::new.
DecReadDimensions ==
    /\ DecIdle
    /\ IF Len(file) = 0
       THEN /\ dec_pc' = "done"
            /\ dec_result' = "err: Missing dimensions"
            /\ UNCHANGED <<dec_width, dec_height>>
       ELSE LET dims == ParseDims(file[1])
            IN  IF (\E i \in 1..Len(dims) : dims[i] = ParseFail) \/ Len(dims) < 2
                THEN /\ dec_pc' = "done"
                     /\ dec_result' = "panic: dimensions"
                     /\ UNCHANGED <<dec_width, dec_height>>
                ELSE /\ dec_pc' = "variables"
                     /\ dec_width' = NumeralToNat(dims[1], 0)
                     /\ dec_height' = NumeralToNat(dims[2], 0)
                     /\ UNCHANGED dec_result
    /\ UNCHANGED <<width, height, grid, enc_pc, row_results, p1_done, new_img,
                   pixel_count, enc_variables, img_output, encoded_rows,
                   p2_done, file, prev_file, runs, dec_variables, rows,
                   decoded_rows, dec_done, decoded_png, enc_ooo, dec_ooo>>

\* lines.next() for the dictionary line, its parse, the remaining lines.
DecReadVariables ==
    /\ dec_pc = "variables"
    /\ IF Len(file) < 2
       THEN /\ dec_pc' = "done"
            /\ dec_result' = "err: Missing variables line"
            /\ UNCHANGED <<dec_variables, rows, decoded_rows>>
       ELSE IF DictionaryPanics(file[2])
       THEN /\ dec_pc' = "done"
            /\ dec_result' = "panic: dictionary key"
            /\ UNCHANGED <<dec_variables, rows, decoded_rows>>
       ELSE /\ dec_pc' = "rows"
            /\ dec_variables' = ParseVariables(file[2])
            /\ rows' = SubSeq(file, 3, Len(file))
            /\ decoded_rows' = [i \in 0..(Len(file) - 3) |-> Pending]
            /\ UNCHANGED dec_result
    /\ UNCHANGED <<width, height, grid, enc_pc, row_results, p1_done, new_img,
                   pixel_count, enc_variables, img_output, encoded_rows,
                   p2_done, file, prev_file, runs, dec_width, dec_height,
                   dec_done, decoded_png, enc_ooo, dec_ooo>>

\* One worker of the parallel map finishes row line y.
DecRow(y) ==
    /\ dec_pc = "rows"
    /\ y \in (0..(Len(rows) - 1)) \ dec_done
    /\ decoded_rows' =
         [decoded_rows EXCEPT ![CollectSlot(y, Cardinality(dec_done))] =
             DecodeRow(y, rows[y + 1], dec_variables)]
    /\ dec_done' = dec_done \cup {y}
    /\ dec_ooo' = (dec_ooo \/ LowerPending(y, dec_done))
    /\ UNCHANGED <<width, height, grid, enc_pc, row_results, p1_done, new_img,
                   pixel_count, enc_variables, img_output, encoded_rows,
                   p2_done, file, prev_file, runs, dec_pc, dec_result,
                   dec_width, dec_height, dec_variables, rows, decoded_png,
                   enc_ooo>>

\* Sort the collected rows by y, put every pixel, save decoded.png (the
\* write of the file itself is taken to succeed).
DecAssemble ==
    /\ dec_pc = "rows"
    /\ dec_done = 0..(Len(rows) - 1)
    /\ dec_pc' = "done"
    /\ IF PutPixelPanics(SortedRows(decoded_rows), dec_width, dec_height)
       THEN /\ dec_result' = "panic: put_pixel"
            /\ UNCHANGED decoded_png
       ELSE /\ dec_result' = "ok"
            /\ decoded_png' =
                 Assemble(SortedRows(decoded_rows), dec_width, dec_height)
    /\ UNCHANGED <<width, height, grid, enc_pc, row_results, p1_done, new_img,
                   pixel_count, enc_variables, img_output, encoded_rows,
                   p2_done, file, prev_file, runs, dec_width, dec_height,
                   dec_variables, rows, decoded_rows, dec_done, enc_ooo,
                   dec_ooo>>

-----------------------------------------------------------------------------
(* The program run again, initial states, specification *)

\* The state of decode() before it starts.
DecReset ==
    /\ dec_pc' = "start"
    /\ dec_result' = "none"
    /\ dec_width' = 0
    /\ dec_height' = 0
    /\ dec_variables' = <<>>
    /\ rows' = <<>>
    /\ decoded_rows' = <<>>
    /\ dec_done' = {}
    /\ decoded_png' = NoFile
    /\ dec_ooo' = FALSE

\* main() is run again on the same image.png; output.ved of the finished
\* run is kept for comparison until the new run replaces it.
Rerun ==
    /\ enc_pc = "done"
    /\ dec_pc \in {"start", "done"}
    /\ runs < MaxRuns
    /\ runs' = runs + 1
    /\ prev_file' = file
    /\ enc_pc' = "phase1"
    /\ row_results' = [i \in 0..(height - 1) |-> Pending]
    /\ encoded_rows' = [i \in 0..(height - 1) |-> Pending]
    /\ p1_done' = {}
    /\ p2_done' = {}
    /\ new_img' = <<>>
    /\ pixel_count' = <<>>
    /\ enc_variables' = <<>>
    /\ img_output' = <<>>
    /\ enc_ooo' = FALSE
    /\ DecReset
    /\ UNCHANGED <<width, height, grid, file>>

\* Lines a hand-written output.ved may hold.
DimLines == {"2,1", "1,2", "2", "x,1", "1,2,3"}
DictLines == {"", "0=FF0000,1=#00ff00", "0=0000FF,junk,1=2=3",
              "18446744073709551615=00FF00", "k=FF0000"}
RowLines == {"0,", "FF0000,1", ",zz", "00FF00", "0,,FF0000"}

SeqsUpTo(S, n) == UNION {[1..k -> S] : k \in 0..n}

CraftedDocs ==
    {<<>>} \cup {<<d>> : d \in DimLines}
    \cup {<<d, v>> \o r :
            d \in DimLines, v \in DictLines, r \in SeqsUpTo(RowLines, MaxDocRows)}

InitCommon ==
    /\ row_results = [i \in 0..(height - 1) |-> Pending]
    /\ encoded_rows = [i \in 0..(height - 1) |-> Pending]
    /\ p1_done = {}
    /\ p2_done = {}
    /\ new_img = <<>>
    /\ pixel_count = <<>>
    /\ enc_variables = <<>>
    /\ img_output = <<>>
    /\ prev_file = NoFile
    /\ runs = 1
    /\ dec_pc = "start"
    /\ dec_result = "none"
    /\ dec_width = 0
    /\ dec_height = 0
    /\ dec_variables = <<>>
    /\ rows = <<>>
    /\ decoded_rows = <<>>
    /\ dec_done = {}
    /\ decoded_png = NoFile
    /\ enc_ooo = FALSE
    /\ dec_ooo = FALSE

\* encode() about to run on an image, no output.ved yet.
InitEncode ==
    /\ width \in 0..MaxW
    /\ height \in 0..MaxH
    /\ width * height <= MaxPixels
    /\ grid \in [0..(height - 1) -> [0..(width - 1) -> Colors]]
    /\ enc_pc = "phase1"
    /\ file = NoFile
    /\ InitCommon

\* decode() about to run on a hand-written output.ved.
InitDecode ==
    /\ width = 0
    /\ height = 0
    /\ grid = <<>>
    /\ enc_pc = "idle"
    /\ file \in CraftedDocs
    /\ InitCommon

Init == InitEncode \/ InitDecode

Next ==
    \/ \E y \in 0..(height - 1) : EncPhase1(y)
    \/ EncMerge
    \/ EncDictionary
    \/ \E y \in 0..(height - 1) : EncPhase2(y)
    \/ EncWrite
    \/ Rerun
    \/ DecReadDimensions
    \/ DecReadVariables
    \/ \E y \in 0..(Len(rows) - 1) : DecRow(y)
    \/ DecAssemble

Spec == Init /\ [][Next]_vars

-----------------------------------------------------------------------------
(* What the properties below are stated with *)

\* The hex color of source pixel (x, y) and its number of occurrences in the
\* grid, counted on the grid itself.
SrcHex(x, y) == HexColor(GetPixel(x, y))
SrcColors == {SrcHex(x, y) : x \in 0..(width - 1), y \in 0..(height - 1)}
SrcCount(c) ==
    Cardinality({<<x, y>> \in (0..(width - 1)) \X (0..(height - 1)) :
                    SrcHex(x, y) = c})

\* The tokens of row line y of output.ved.
FileTokens(y) == Split(file[y + 3], ",")

IndexShaped(t) == t # "" /\ ParseUsize(t) # ParseFail

EncDone == enc_pc = "done"
DecOk == dec_pc = "done" /\ dec_result = "ok"

\* The pixels that the tokens of row line y stand for, token by token.
RowPixels(y) == DecodeTokens(Split(rows[y + 1], ","), 1, "", <<>>, dec_variables)

-----------------------------------------------------------------------------
(* C1 *)

\* C1: for every grid with W >= 1 and H >= 1, decoding the document that
\* encode produced succeeds with the same dimensions and gives every pixel
\* the red, green and blue channels of the source pixel.
C1_RoundTrip ==
    (EncDone /\ dec_pc = "done" /\ width >= 1 /\ height >= 1) =>
        /\ dec_result = "ok"
        /\ dec_width = width
        /\ dec_height = height
        /\ \A y \in 0..(height - 1) : \A x \in 0..(width - 1) :
               SubSeq(decoded_png[y][x], 1, 3) = GetPixel(x, y)

-----------------------------------------------------------------------------
(* C2 *)

\* C2: in every document produced by encode, every row token that is
\* non-empty and parses as a non-negative integer is a key of the dictionary
\* written on line 1.
C2_DictionarySoundness ==
    EncDone =>
        \A y \in 0..(Len(file) - 3) :
            \A k \in 1..Len(FileTokens(y)) :
                IndexShaped(FileTokens(y)[k]) =>
                    ParseUsize(FileTokens(y)[k]) \in DOMAIN ParseVariables(file[2])

-----------------------------------------------------------------------------
(* C3 *)

\* C3: the dictionary built by encode holds exactly the colors that occur at
\* least twice in the grid, its indices are 0..n-1 without gap or duplicate,
\* a lower index never has a smaller count than a higher one, the dictionary
\* line lists the entries in index order, and a pixel whose color occurs
\* once is written as its literal hex token.
C3_DictionaryConstruction ==
    (enc_pc \in {"phase2", "done"}) =>
        LET n == Cardinality(DOMAIN enc_variables)
        IN  /\ DOMAIN enc_variables = {c \in SrcColors : SrcCount(c) >= 2}
            /\ {enc_variables[c] : c \in DOMAIN enc_variables} = 0..(n - 1)
            /\ \A c, d \in DOMAIN enc_variables :
                   enc_variables[c] < enc_variables[d] => SrcCount(c) >= SrcCount(d)
            /\ img_output[2] =
                 Join([i \in 1..n |->
                          NatToStr(i - 1) \o "="
                          \o (CHOOSE c \in DOMAIN enc_variables :
                                 enc_variables[c] = i - 1)], ",")
            /\ EncDone =>
                 \A y \in 0..(height - 1) : \A x \in 0..(width - 1) :
                     SrcCount(SrcHex(x, y)) = 1 =>
                         FileTokens(y)[x + 1] = SrcHex(x, y)

\* A finished encode of a grid with a color that occurs once and a color
\* that occurs at least twice.
C3_Witness ==
    /\ EncDone
    /\ \E c \in SrcColors : SrcCount(c) = 1
    /\ \E d \in SrcColors : SrcCount(d) >= 2 /\ d \in DOMAIN enc_variables

-----------------------------------------------------------------------------
(* C4 *)

\* C4: two encode runs on the same grid write the same document.
C4_DictionaryDeterminism ==
    (EncDone /\ runs > 1) => file = prev_file

-----------------------------------------------------------------------------
(* C5 *)

\* C5: whatever the completion order of the row workers, row line i of the
\* document that encode writes is the encoding of grid row i, and the grid
\* that decode saves holds in row y = i the pixels of row line i.
C5_RowOrder ==
    /\ EncDone =>
         /\ Len(file) = 2 + height
         /\ \A i \in 0..(height - 1) :
                file[i + 3] = EncodeRow(Phase1Row(i)[1], enc_variables)
    /\ DecOk =>
         \A i \in 0..(Len(rows) - 1) :
             \A x \in 0..(Min(dec_width, Len(RowPixels(i))) - 1) :
                 decoded_png[i][x] = RowPixels(i)[x + 1]

\* Encode and decode have both finished after a worker of each finished
\* before a worker of a lower row, on rows that differ.
C5_Witness ==
    /\ EncDone /\ enc_ooo /\ file[3] # file[4]
    /\ DecOk /\ dec_ooo /\ decoded_png[0] # decoded_png[1]

-----------------------------------------------------------------------------
(* C6 *)

\* C6: every pixel of the grid that a successful decode saves has alpha 255,
\* the pixels that no token wrote included.
C6_DecodedOpaque ==
    DecOk =>
        \A y \in 0..(dec_height - 1) : \A x \in 0..(dec_width - 1) :
            decoded_png[y][x][4] = 255

-----------------------------------------------------------------------------
(* C7 *)

\* C7: once the two header lines are read, a document with at most H row
\* lines decodes successfully whatever the length of its rows: token k of
\* row line i is written to (k, i) for k < W, tokens beyond W are dropped,
\* positions beyond the last token keep the initial pixel.
C7_RowLengthHandling ==
    (dec_pc = "done" /\ dec_result \in {"ok", "panic: put_pixel"}
        /\ Len(rows) <= dec_height) =>
        /\ dec_result = "ok"
        /\ \A i \in 0..(Len(rows) - 1) : \A x \in 0..(dec_width - 1) :
               decoded_png[i][x] =
                   IF x < Len(RowPixels(i)) THEN RowPixels(i)[x + 1]
                   ELSE NewImagePixel

-----------------------------------------------------------------------------
(* C8 *)

WellFormedDims(line) ==
    LET parts == Split(line, ",")
    IN  Len(parts) = 2 /\ \A i \in 1..2 : ParseU32(parts[i]) # ParseFail

HeaderFailure ==
    dec_result \in {"err: Missing dimensions", "err: Missing variables line",
                    "panic: dimensions"}

\* C8: decode ends in failure without a grid when the document has no line
\* 0, no line 1, or a line 0 that is not exactly two comma-separated
\* non-negative integers, and in no other case do these steps fail.
C8_FatalDecodeErrors ==
    (dec_pc \in {"rows", "done"}) =>
        IF Len(file) < 2 \/ ~WellFormedDims(file[1])
        THEN dec_pc = "done" /\ HeaderFailure /\ decoded_png = NoFile
        ELSE ~HeaderFailure

-----------------------------------------------------------------------------
(* C9 *)

\* C9: for a grid with W = 0 or H = 0, encode writes the dimensions line,
\* the dictionary line and no row line.
C9_EmptyImage ==
    (EncDone /\ (width = 0 \/ height = 0)) => Len(file) = 2

-----------------------------------------------------------------------------
(* C10 *)

\* C10: a non-empty token decodes through the dictionary only if it parses
\* as a non-negative integer that is a dictionary key; any other non-empty
\* token decodes as the literal color its own text spells.
C10_TokenResolution ==
    (dec_pc \in {"rows", "done"} /\ dec_result \in {"none", "ok", "panic: put_pixel"}) =>
        \A y \in dec_done :
            LET toks == Split(rows[y + 1], ",")
            IN  \A k \in 1..Len(toks) :
                    toks[k] # "" =>
                        decoded_rows[y].pixels[k] =
                            IF ParseUsize(toks[k]) # ParseFail
                               /\ ParseUsize(toks[k]) \in DOMAIN dec_variables
                            THEN PixelOf(Normalize(dec_variables[ParseUsize(toks[k])]))
                            ELSE PixelOf(Normalize(toks[k]))

====
